---- MODULE Spec2Model ----
(***************************************************************************)
(* Model of openmdao/utils/units.py: the PhysicalUnit algebra, the unit    *)
(* library (unit table, prefixes, help), the definition loader             *)
(* (_update_library), the expression resolver (_find_unit) and the         *)
(* conversion functions.                                                   *)
(*                                                                         *)
(* update_library uses basestring and open(..., 'rU'): the module is       *)
(* Python 2 code, and eval is modelled with the semantics the loader is    *)
(* written against: a name found neither in the unit table nor in globals  *)
(* raises NameError.                                                       *)
(*                                                                         *)
(* Representation.                                                         *)
(*  - A Python string that the code slices or concatenates is a sequence  *)
(*    of atoms: a unit name is a sequence of one-character strings, so     *)
(*    that item[0], item[1:], item[0:2] are Head, Tail and SubSeq.         *)
(*  - A float is an exact number <<n, d, k>> standing for (n/d) * pi^k     *)
(*    with d > 0 and gcd(n, d) = 1 (exact arithmetic, no rounding).        *)
(*  - A Python number carries its type: [t |-> "int"|"float", v |-> num].  *)
(*  - A NumberDict (an OrderedDict) is a sequence of <<key, value>> pairs  *)
(*    in insertion order.                                                  *)
(*  - PhysicalUnit instances live in a heap keyed by object identity;      *)
(*    the unit table, the cache and the help list hold references.         *)
(*  - A unit expression (the text handed to eval) is its syntax tree.      *)
(***************************************************************************)
EXTENDS Integers, Sequences, FiniteSets, TLC

----------------------------------------------------------------------------
(* Exact numbers: the float arithmetic of the code without rounding.       *)

Abs(x) == IF x < 0 THEN -x ELSE x

RECURSIVE GCD(_, _)
GCD(a, b) == IF b = 0 THEN a ELSE GCD(b, a % b)

\* float(value): the canonical form of (n/d) * pi^k
Float(n, d, k) ==
    IF n = 0 THEN <<0, 1, 0>>
    ELSE LET g == GCD(Abs(n), Abs(d))
             s == IF d < 0 THEN -1 ELSE 1
         IN  <<(s * n) \div g, (s * d) \div g, k>>

Zero == Float(0, 1, 0)
One  == Float(1, 1, 0)

\* a * b
FMul(a, b) == Float(a[1] * b[1], a[2] * b[2], a[3] + b[3])

\* a / b (b nonzero; the callers raise ZeroDivisionError first)
FDiv(a, b) == Float(a[1] * b[2], a[2] * b[1], a[3] - b[3])

\* a + b; both operands carry the same power of pi unless one is zero
FAdd(a, b) ==
    IF a[1] = 0 THEN b
    ELSE IF b[1] = 0 THEN a
    ELSE CHOOSE r \in {Float(a[1] * b[2] + b[1] * a[2], a[2] * b[2], a[3])} :
             a[3] = b[3]

\* a - b
FSub(a, b) == FAdd(a, Float(-b[1], b[2], b[3]))


RECURSIVE IPow(_, _)
IPow(b, e) == IF e = 0 THEN 1 ELSE b * IPow(b, e - 1)

\* pow(a, n) for an integer n
FPow(a, n) ==
    IF n >= 0 THEN Float(IPow(a[1], n), IPow(a[2], n), a[3] * n)
    ELSE Float(IPow(a[2], -n), IPow(a[1], -n), a[3] * n)

\* the exact k-th root of a non-negative integer (the model only takes roots
\* of perfect powers)
IRoot(x, k) == CHOOSE r \in 0..x : IPow(r, k) = x

\* a ** (1/k) for a positive integer k
FRoot(a, k) ==
    CHOOSE r \in {Float(IRoot(a[1], k), IRoot(a[2], k), a[3] \div k)} :
        a[3] % k = 0

\* floor(a) for a pi-free number
FFloor(a) == a[1] \div a[2]

\* Python numbers
PyInt(i)      == [t |-> "int", v |-> Float(i, 1, 0)]
PyFloat(n, d) == [t |-> "float", v |-> Float(n, d, 0)]

\* math.pi
pi == [t |-> "float", v |-> <<1, 1, 1>>]

\* str(number): the text of a number, one atom
Str(x) == <<ToString(x)>>

----------------------------------------------------------------------------
(* class NumberDict(OrderedDict)                                           *)

EmptyDict == << >>

Keys(d) == {d[i][1] : i \in 1..Len(d)}

\* __getitem__: the item, or 0
Get(d, key) ==
    IF key \in Keys(d)
    THEN d[CHOOSE i \in 1..Len(d) : d[i][1] = key][2]
    ELSE 0

\* d[key] = v: an existing key keeps its position, a new key is appended
Put(d, key, v) ==
    IF key \in Keys(d)
    THEN [i \in 1..Len(d) |-> IF d[i][1] = key THEN <<key, v>> ELSE d[i]]
    ELSE Append(d, <<key, v>>)

\* __add__: sum_dict[k] = v for self, then sum_dict[k] = sum_dict[k] + v
RECURSIVE NDAdd(_, _)
NDAdd(self, other) ==
    IF other = << >> THEN self
    ELSE LET k == Head(other)[1]
             v == Head(other)[2]
         IN  NDAdd(Put(self, k, Get(self, k) + v), Tail(other))

\* __sub__
RECURSIVE NDSub(_, _)
NDSub(self, other) ==
    IF other = << >> THEN self
    ELSE LET k == Head(other)[1]
             v == Head(other)[2]
         IN  NDSub(Put(self, k, Get(self, k) - v), Tail(other))

\* __rsub__: other - self
NDRSub(self, other) == NDSub(other, self)

\* __mul__ / __rmul__ by an integer
NDMul(self, other) == [i \in 1..Len(self) |-> <<self[i][1], other * self[i][2]>>]

\* __div__ by an integer that divides every value
NDDiv(self, other) == [i \in 1..Len(self) |-> <<self[i][1], self[i][2] \div other>>]

----------------------------------------------------------------------------
(* Exceptions and the results of calls                                     *)


Raise(type, msg, arg) == [type |-> type, msg |-> msg, arg |-> arg]

IncompatibleMul == Raise("TypeError", "cannot multiply units with non-zero offset", << >>)
IncompatibleDiv == Raise("TypeError", "cannot divide units with non-zero offset", << >>)
IncompatiblePow == Raise("TypeError", "cannot exponentiate units with non-zero offset", << >>)
UnsupportedExponent == Raise("TypeError", "Only integer and inverse integer exponents allowed", << >>)
IncompatibleUnits == Raise("TypeError", "Incompatible units", << >>)
ZeroDivision == Raise("ZeroDivisionError", "division by zero", << >>)
NameError(name) == Raise("NameError", "name is not defined", name)
UnknownUnit(item) == Raise("ValueError", "no unit named is defined", item)
NotAUnit(x) == Raise("TypeError", "is not a unit", x)
DuplicateUnitConflict(name) ==
    Raise("KeyError", "already defined with different factor or powers", name)
UnresolvedUnits(names) ==
    Raise("ValueError", "The following units were not defined", names)
InvalidFormat(name) == Raise("ValueError", "definition has invalid format", name)
NoSetName == Raise("AttributeError", "object has no attribute set_name", << >>)

\* the outcome of evaluating an expression or calling a method: an
\* exception, a number, or a PhysicalUnit
Exc(e)  == [k |-> "exc", exc |-> e]
Num(n)  == [k |-> "num", n |-> n]
New(u)  == [k |-> "new", u |-> u]
Ref(id) == [k |-> "ref", id |-> id]

----------------------------------------------------------------------------
(* class PhysicalUnit                                                      *)

\* __init__(names, factor, powers, offset=0) with names a NumberDict
PhysicalUnit(names, factor, powers, offset) ==
    [names |-> names, factor |-> factor, powers |-> powers, offset |-> offset]

\* __init__ with names a str: NumberDict(((names, 1),))
NamedUnit(name, factor, powers, offset) ==
    PhysicalUnit(<< <<name, 1>> >>, factor, powers, offset)

\* isinstance(x, PhysicalUnit)
IsUnit(x) == "names" \in DOMAIN x

\* __eq__
UnitEq(self, other) ==
    /\ self.factor = other.factor
    /\ self.offset = other.offset
    /\ self.powers = other.powers

\* __mul__ / __rmul__: other is a PhysicalUnit or a number
UnitMul(self, other) ==
    IF self.offset # Zero \/ (IsUnit(other) /\ other.offset # Zero)
    THEN Exc(IncompatibleMul)
    ELSE IF IsUnit(other)
    THEN New(PhysicalUnit(NDAdd(self.names, other.names),
                          FMul(self.factor, other.factor),
                          [i \in 1..Len(self.powers) |->
                              self.powers[i] + other.powers[i]],
                          Zero))
    ELSE New(PhysicalUnit(NDAdd(self.names, << <<Str(other), 1>> >>),
                          FMul(self.factor, other.v),
                          self.powers,
                          FMul(self.offset, other.v)))

\* __div__ / __truediv__
UnitDiv(self, other) ==
    IF self.offset # Zero \/ (IsUnit(other) /\ other.offset # Zero)
    THEN Exc(IncompatibleDiv)
    ELSE IF IsUnit(other)
    THEN IF other.factor = Zero THEN Exc(ZeroDivision)
         ELSE New(PhysicalUnit(NDSub(self.names, other.names),
                               FDiv(self.factor, other.factor),
                               [i \in 1..Len(self.powers) |->
                                   self.powers[i] - other.powers[i]],
                               Zero))
    ELSE IF other.v = Zero THEN Exc(ZeroDivision)
         ELSE New(PhysicalUnit(NDAdd(self.names, << <<Str(other), -1>> >>),
                               FDiv(self.factor, other.v),
                               self.powers,
                               Zero))

\* __rdiv__ / __rtruediv__: other / self for a number other
UnitRDiv(self, other) ==
    IF self.factor = Zero THEN Exc(ZeroDivision)
    ELSE New(PhysicalUnit(NDRSub(self.names, << <<Str(other), 1>> >>),
                          FDiv(other.v, self.factor),
                          [i \in 1..Len(self.powers) |-> -self.powers[i]],
                          Zero))

\* names[name] = x for x, name in zip(p, base_names)
RECURSIVE ZipNames(_, _, _)
ZipNames(names, p, base_names) ==
    IF p = << >> \/ base_names = << >> THEN names
    ELSE ZipNames(Put(names, Head(base_names), Head(p)), Tail(p), Tail(base_names))

\* PowersDivisible without the test
PowersDivisible_Always(powers, rounded) == TRUE

\* all([x % rounded == 0 for x in self._powers])
PowersDivisible(powers, rounded) ==
    \A i \in 1..Len(powers) : powers[i] % Abs(rounded) = 0

\* __pow__: other is the value of the exponent, a number or a PhysicalUnit
UnitPow(self, other, base_names) ==
    IF self.offset # Zero THEN Exc(IncompatiblePow)
    ELSE IF IsUnit(other) THEN Exc(UnsupportedExponent)
    ELSE IF other.t = "int"
    THEN LET n == other.v[1] IN
         IF n < 0 /\ self.factor = Zero THEN Exc(ZeroDivision)
         ELSE New(PhysicalUnit(NDMul(self.names, n),
                               FPow(self.factor, n),
                               [i \in 1..Len(self.powers) |-> self.powers[i] * n],
                               Zero))
    ELSE IF other.v = Zero THEN Exc(ZeroDivision)
    ELSE LET inv_exp == FDiv(One, other.v)
             rounded == FFloor(FAdd(inv_exp, Float(1, 2, 0)))
         IN  \* abs(inv_exp - rounded) < 1.e-10, exact for the exponents used
             IF inv_exp = Float(rounded, 1, 0) /\ PowersDivisible(self.powers, rounded)
             THEN LET f == IF rounded > 0 THEN FRoot(self.factor, rounded)
                           ELSE FDiv(One, FRoot(self.factor, -rounded))
                      p == [i \in 1..Len(self.powers) |->
                               self.powers[i] \div rounded]
                      names ==
                          IF \A i \in 1..Len(self.names) :
                                 self.names[i][2] % Abs(rounded) = 0
                          THEN NDDiv(self.names, rounded)
                          ELSE ZipNames(IF f # One
                                        THEN << <<Str([t |-> "float", v |-> f]), 1>> >>
                                        ELSE EmptyDict,
                                        p, base_names)
                  IN  New(PhysicalUnit(names, f, p, Zero))
             ELSE Exc(UnsupportedExponent)

\* conversion_tuple_to with the offset of other not rescaled to self
conversion_tuple_to_Unscaled(self, other) ==
    IF self.powers # other.powers THEN Exc(IncompatibleUnits)
    ELSE IF other.factor = Zero \/ self.factor = Zero THEN Exc(ZeroDivision)
    ELSE LET factor == FDiv(self.factor, other.factor)
             offset == FSub(self.offset, other.offset)
         IN  [k |-> "tuple", factor |-> factor, offset |-> offset]

\* conversion_tuple_to: (factor, offset) such that (x + offset) * factor
\* converts x from self to other
conversion_tuple_to(self, other) ==
    IF self.powers # other.powers THEN Exc(IncompatibleUnits)
    ELSE IF other.factor = Zero \/ self.factor = Zero THEN Exc(ZeroDivision)
    ELSE LET factor == FDiv(self.factor, other.factor)
             offset == FSub(self.offset,
                            FDiv(FMul(other.offset, other.factor), self.factor))
         IN  [k |-> "tuple", factor |-> factor, offset |-> offset]

\* PhysicalUnit.is_compatible
unit_is_compatible(self, other) == self.powers = other.powers

\* is_dimensionless
is_dimensionless(self) == \A i \in 1..Len(self.powers) : self.powers[i] = 0

\* sum(self._powers)
RECURSIVE Sum(_)
Sum(s) == IF s = << >> THEN 0 ELSE Head(s) + Sum(Tail(s))

\* is_angle
is_angle(self, base_types) ==
    self.powers[base_types["angle"]] = 1 /\ Sum(self.powers) = 1

\* set_name: self._names = NumberDict(); self._names[name] = 1
set_name(self, name) == [self EXCEPT !.names = Put(EmptyDict, name, 1)]

\* the loop of name() and of in_base_units(): the texts num and denom built
\* from a sequence of <<unit, power>> pairs
RECURSIVE Render(_, _, _)
Render(items, num, denom) ==
    IF items = << >> THEN <<num, denom>>
    ELSE LET unit == Head(items)[1]
             power == Head(items)[2]
         IN  IF power < 0
             THEN Render(Tail(items), num,
                         denom \o <<"/">> \o unit \o
                         (IF power < -1 THEN <<"**">> \o Str(-power) ELSE << >>))
             ELSE IF power > 0
             THEN Render(Tail(items),
                         num \o <<"*">> \o unit \o
                         (IF power > 1 THEN <<"**">> \o Str(power) ELSE << >>),
                         denom)
             ELSE Render(Tail(items), num, denom)

\* name(): the text of the unit (num[1:] drops the leading '*')
unit_name(self) ==
    LET r == Render(self.names, << >>, << >>)
    IN  (IF Len(r[1]) = 0 THEN <<"1">> ELSE Tail(r[1])) \o r[2]

----------------------------------------------------------------------------
(* Unit expressions.  The text of an expression is its syntax tree plus a  *)
(* flag telling whether the text has surrounding blanks.                   *)

Name(id)     == [op |-> "name", id |-> id]
Lit(n)       == [op |-> "lit", n |-> n]
BinOp(op, l, r) == [op |-> op, l |-> l, r |-> r]
Mul(l, r)    == BinOp("mul", l, r)
Div(l, r)    == BinOp("div", l, r)
Pow(l, r)    == BinOp("pow", l, r)

Text(e)      == [pad |-> FALSE, e |-> e]
Padded(e)    == [pad |-> TRUE, e |-> e]
EmptyText    == Text([op |-> "empty"])

\* str.strip()
Strip(text)  == [text EXCEPT !.pad = FALSE]

\* isinstance(x, str)
IsStr(x) == "pad" \in DOMAIN x

SyntaxError == Raise("SyntaxError", "unexpected EOF while parsing", << >>)
UnsupportedOperand == Raise("TypeError", "unsupported operand type(s)", << >>)

\* f overridden at key
Store(f, key, v) == (key :> v) @@ f

\* the PhysicalUnit a value denotes
UnitOf(v, heap) == IF v.k = "ref" THEN heap[v.id] ELSE v.u

IsUnitValue(v) == v.k \in {"ref", "new"}

\* the arithmetic of two numbers
NumOp(op, a, b) ==
    CASE op = "mul" ->
           Num([t |-> IF a.t = "int" /\ b.t = "int" THEN "int" ELSE "float",
                v |-> FMul(a.v, b.v)])
      [] op = "div" ->
           IF b.v = Zero THEN Exc(ZeroDivision)
           ELSE Num([t |-> "float", v |-> FDiv(a.v, b.v)])
      [] op = "pow" ->
           IF b.t = "int"
           THEN IF b.v[1] < 0 /\ a.v = Zero THEN Exc(ZeroDivision)
                ELSE Num([t |-> IF a.t = "int" /\ b.v[1] >= 0 THEN "int" ELSE "float",
                          v |-> FPow(a.v, b.v[1])])
           ELSE Num([t |-> "float", v |-> FRoot(a.v, FDiv(One, b.v)[1])])

\* one binary operation of the evaluated expression: Python dispatches to
\* __mul__/__rmul__, __truediv__/__rtruediv__, __pow__
Apply(op, l, r, heap, base_names) ==
    IF IsUnitValue(l)
    THEN LET self == UnitOf(l, heap)
             other == IF IsUnitValue(r) THEN UnitOf(r, heap) ELSE r.n
         IN  CASE op = "mul" -> UnitMul(self, other)
               [] op = "div" -> UnitDiv(self, other)
               [] op = "pow" -> UnitPow(self, other, base_names)
    ELSE IF IsUnitValue(r)
    THEN LET self == UnitOf(r, heap)
         IN  CASE op = "mul" -> UnitMul(self, l.n)
               [] op = "div" -> UnitRDiv(self, l.n)
               [] op = "pow" -> Exc(UnsupportedOperand)
    ELSE NumOp(op, l.n, r.n)

\* eval(text, globals, unit_table): names are looked up in the unit table,
\* then in globals; operands are evaluated left to right before the
\* operation is applied
RECURSIVE EvalTree(_, _, _, _, _)
EvalTree(e, globals, unit_table, heap, base_names) ==
    CASE e.op = "empty" -> Exc(SyntaxError)
      [] e.op = "name" ->
           IF e.id \in DOMAIN unit_table THEN Ref(unit_table[e.id])
           ELSE IF e.id \in DOMAIN globals THEN Num(globals[e.id])
           ELSE Exc(NameError(e.id))
      [] e.op = "lit" -> Num(e.n)
      [] OTHER ->
           LET l == EvalTree(e.l, globals, unit_table, heap, base_names)
           IN  IF l.k = "exc" THEN l
               ELSE LET r == EvalTree(e.r, globals, unit_table, heap, base_names)
                    IN  IF r.k = "exc" THEN r
                        ELSE Apply(e.op, l, r, heap, base_names)

\* regex.findall(name): the identifiers of the text, left to right
RECURSIVE findall(_)
findall(e) ==
    CASE e.op = "name" -> <<e.id>>
      [] e.op \in {"lit", "empty"} -> << >>
      [] OTHER -> findall(e.l) \o findall(e.r)

----------------------------------------------------------------------------
(* The unit library (_UNIT_LIB), the cache (_UNIT_CACHE) and the heap of   *)
(* PhysicalUnit instances.  The operations below are functions of a        *)
(* library state L and return the new state with the result.               *)

VARIABLES
    unit_table,     \* _UNIT_LIB.unit_table: name -> instance
    heap,           \* instance -> PhysicalUnit attributes
    UNIT_CACHE,     \* _UNIT_CACHE: stripped text -> instance or number
    help,           \* _UNIT_LIB.help
    prefixes,       \* _UNIT_LIB.prefixes: prefix -> float
    base_names,     \* _UNIT_LIB.base_names
    base_types,     \* _UNIT_LIB.base_types: type -> index
    pc,             \* position in _update_library, "idle" outside it
    cfg,            \* the records of cfg.items('units') being loaded
    idx,            \* position of the first loop in cfg
    retry1,         \* _update_library.retry1
    retry2,         \* the part of retry2 the for loop has not visited yet
    retry2_copy,    \* retry2 = retry1.copy(): the set the for loop visits
    retry_count,    \* _update_library.retry_count
    last_retry_count,
    last            \* the last call made by a client and its outcome

\* solver.py: one solver instance and the locals of Solver._run_iterator
VARIABLES
    spc,            \* position in _run_iterator, "idle" outside a call
    solver,         \* self: the class of the solver called and self._options
    norm0,          \* _run_iterator.norm0
    norm,           \* _run_iterator.norm
    iteration,      \* _run_iterator.iteration
    ret             \* what the last call returned or raised

solvervars == <<spc, solver, norm0, norm, iteration, ret>>

libvars == <<unit_table, heap, UNIT_CACHE, help, prefixes, base_names, base_types>>
loadvars == <<pc, cfg, idx, retry1, retry2, retry2_copy, retry_count,
              last_retry_count>>
vars == <<unit_table, heap, UNIT_CACHE, help, prefixes, base_names, base_types,
          pc, cfg, idx, retry1, retry2, retry2_copy, retry_count,
          last_retry_count, last, spc, solver, norm0, norm, iteration, ret>>

unitvars == <<libvars, loadvars, last>>

Lib == [unit_table |-> unit_table, heap |-> heap, cache |-> UNIT_CACHE,
        help |-> help, prefixes |-> prefixes, base_names |-> base_names,
        base_types |-> base_types]

\* the identity of a newly created instance
Alloc(hp) ==
    CHOOSE i \in 1..(Cardinality(DOMAIN hp) + 1) :
        i \notin DOMAIN hp /\ \A j \in 1..(i - 1) : j \in DOMAIN hp


\* the elements of a set, in a fixed order
RECURSIVE SetToSeq(_)
SetToSeq(S) ==
    IF S = {} THEN << >>
    ELSE LET x == CHOOSE y \in S : TRUE
         IN  <<x>> \o SetToSeq(S \ {x})

\* the references of the library to instances: those of the unit table, of
\* the cache and of the help list, in a fixed order
References(L) ==
    LET names == SetToSeq(DOMAIN L.unit_table)
        texts == SetToSeq({x \in DOMAIN L.cache : L.cache[x].k = "ref"})
        helps == SelectSeq(L.help, LAMBDA h : ~IsStr(h[3]))
    IN  [i \in 1..Len(names) |-> L.unit_table[names[i]]]
        \o [i \in 1..Len(texts) |-> L.cache[texts[i]].id]
        \o [i \in 1..Len(helps) |-> helps[i][3].id]

\* the distinct elements of a sequence in the order of their first occurrence
RECURSIVE Distinct(_, _)
Distinct(s, acc) ==
    IF s = << >> THEN acc
    ELSE Distinct(Tail(s),
                  IF \E i \in 1..Len(acc) : acc[i] = Head(s)
                  THEN acc ELSE Append(acc, Head(s)))

\* instances nothing refers to are reclaimed; an identity is only ever
\* compared with another, so the instances that remain are numbered by
\* their first reference
Collect(L) ==
    LET order == Distinct(References(L), << >>)
        num == [id \in {order[i] : i \in 1..Len(order)} |->
                   CHOOSE i \in 1..Len(order) : order[i] = id]
        ref(v) == IF v.k = "ref" THEN Ref(num[v.id]) ELSE v
    IN  [L EXCEPT
           !.heap = [k \in 1..Len(order) |-> L.heap[order[k]]],
           !.unit_table = [n \in DOMAIN L.unit_table |-> num[L.unit_table[n]]],
           !.cache = [x \in DOMAIN L.cache |-> ref(L.cache[x])],
           !.help = [i \in 1..Len(L.help) |->
                        IF IsStr(L.help[i][3]) THEN L.help[i]
                        ELSE <<L.help[i][1], L.help[i][2], ref(L.help[i][3])>>]]

\* the result of a call: the library after it and its value or exception
Result(L, res) == [L |-> L, res |-> res]

None == [k |-> "none"]

\* add_unit(name, unit, comment): unit is a text or a PhysicalUnit value
add_unit(L, name, unit, comment) ==
    LET L1 == IF comment # ""
              THEN [L EXCEPT !.help = Append(@, <<name, comment, unit>>)]
              ELSE L
        \* unit.set_name(name) and the rest, v being what unit evaluates to
        Define(v) ==
            IF v.k = "exc" THEN Result(L1, v)
            ELSE IF v.k = "num" THEN Result(L1, Exc(NoSetName))
            ELSE LET id == IF v.k = "ref" THEN v.id ELSE Alloc(L1.heap)
                     u  == set_name(UnitOf(v, L1.heap), name)
                     L2 == [L1 EXCEPT !.heap = Store(@, id, u)]
                 IN  IF /\ name \in DOMAIN L2.unit_table
                        /\ \/ L2.heap[L2.unit_table[name]].factor # u.factor
                           \/ L2.heap[L2.unit_table[name]].powers # u.powers
                     THEN Result(L2, Exc(DuplicateUnitConflict(name)))
                     ELSE Result([L2 EXCEPT !.unit_table = Store(@, name, id)], None)
    IN  Define(IF IsStr(unit)
               THEN EvalTree(unit.e, (<<"p", "i">> :> pi), L1.unit_table, L1.heap,
                             L1.base_names)
               ELSE unit)

\* item[0:n] and item[n:]
Slice(item, n) == SubSeq(item, 1, IF n < Len(item) THEN n ELSE Len(item))
Rest(item, n)  == SubSeq(item, n + 1, Len(item))

\* PrefixLen with the two tests exchanged: the 2-character prefix first
PrefixLen_TwoFirst(L, item) ==
    IF /\ Slice(item, 2) \in DOMAIN L.prefixes
       /\ Rest(item, 2) \in DOMAIN L.unit_table
    THEN 2
    ELSE IF /\ Slice(item, 1) \in DOMAIN L.prefixes
            /\ Rest(item, 1) \in DOMAIN L.unit_table
    THEN 1
    ELSE 0

\* the if/elif/else of _find_unit on an item that is no unit name: the
\* length of the prefix it is split at, 0 when it is no prefixed unit
PrefixLen(L, item) ==
    IF /\ Slice(item, 1) \in DOMAIN L.prefixes
       /\ Rest(item, 1) \in DOMAIN L.unit_table
    THEN 1
    ELSE IF /\ Slice(item, 2) \in DOMAIN L.prefixes
            /\ Rest(item, 2) \in DOMAIN L.unit_table
    THEN 2
    ELSE 0

\* the for loop of _find_unit over regex.findall(name)
RECURSIVE SynthLoop(_, _)
SynthLoop(L, items) ==
    IF items = << >> THEN Result(L, None)
    ELSE LET item == Head(items)
             n == PrefixLen(L, item)
             prod == UnitMul(L.heap[L.unit_table[Rest(item, n)]],
                             L.prefixes[Slice(item, n)])
             \* the next item, r being what add_unit returned
             Continue(r) == IF r.res.k = "exc" THEN r
                            ELSE SynthLoop(r.L, Tail(items))
         IN  IF EvalTree(Name(item), << >>, L.unit_table, L.heap,
                         L.base_names).k # "exc"
             THEN SynthLoop(L, Tail(items))
             ELSE IF n = 0 THEN Result(L, Exc(UnknownUnit(item)))
             ELSE IF prod.k = "exc" THEN Result(L, prod)
             ELSE Continue(add_unit(L, item, prod, ""))

\* _find_unit(unit) for a text unit
find_unit(L, unit) ==
    LET nm == Strip(unit)
        \* _UNIT_CACHE[name] = unit, then the isinstance check
        Finish(L1, v) ==
            IF v.k = "exc" THEN Result(L1, v)
            ELSE IF v.k = "num"
            THEN Result([L1 EXCEPT !.cache = Store(@, nm, v)], Exc(NotAUnit(v.n)))
            ELSE LET id == IF v.k = "ref" THEN v.id ELSE Alloc(L1.heap)
                 IN  Result([L1 EXCEPT !.heap = Store(@, id, UnitOf(v, L1.heap)),
                                       !.cache = Store(@, nm, Ref(id))],
                            Ref(id))
        \* the second eval, s being the outcome of the loop over the items
        Again(s) ==
            IF s.res.k = "exc" THEN s
            ELSE Finish(s.L, EvalTree(nm.e, << >>, s.L.unit_table, s.L.heap,
                                      s.L.base_names))
        \* v is the outcome of the first eval
        First(v) ==
            IF v.k # "exc" THEN Finish(L, v)
            ELSE Again(SynthLoop(L, findall(nm.e)))
    IN  IF nm \in DOMAIN L.cache
        THEN IF L.cache[nm].k = "num"
             THEN Result(L, Exc(NotAUnit(L.cache[nm].n)))
             ELSE Result(L, L.cache[nm])
        ELSE First(EvalTree(nm.e, << >>, L.unit_table, L.heap, L.base_names))

\* add_offset_unit(name, baseunit, factor, offset, comment) for a text baseunit
add_offset_unit(L, name, baseunit, factor, offset, comment) ==
    LET \* r is what _find_unit(baseunit) returned or raised
        Define(r) ==
            IF r.res.k = "exc" THEN r
            ELSE LET base == r.L.heap[r.res.id]
                     unit == set_name(PhysicalUnit(base.names,
                                                   FMul(base.factor, factor),
                                                   base.powers, offset), name)
                     id   == Alloc(r.L.heap)
                     tbl  == r.L.unit_table
                 IN  IF /\ name \in DOMAIN tbl
                        /\ \/ r.L.heap[tbl[name]].factor # unit.factor
                           \/ r.L.heap[tbl[name]].powers # unit.powers
                     THEN Result(r.L, Exc(DuplicateUnitConflict(name)))
                     ELSE Result([r.L EXCEPT
                                     !.heap = Store(@, id, unit),
                                     !.unit_table = Store(@, name, id),
                                     !.help = IF comment # ""
                                              THEN Append(@, <<name, comment, Ref(id)>>)
                                              ELSE @],
                                 None)
    IN  Define(find_unit(L, baseunit))

\* the text num + denom that in_base_units builds, as the tree Python parses
\* it to: '*' and '/' associate to the left and '**' binds tighter
RECURSIVE BaseText(_, _, _, _)
BaseText(names, powers, num, denom) ==
    IF names = << >> \/ powers = << >>
    THEN IF denom = << >> THEN num
         ELSE BaseText(names, powers, Div(num, Head(denom)), Tail(denom))
    ELSE LET unit  == Head(names)
             power == Head(powers)
             term  == IF Abs(power) > 1
                      THEN Pow(Name(unit), Lit(PyInt(Abs(power))))
                      ELSE Name(unit)
         IN  IF power < 0
             THEN BaseText(Tail(names), Tail(powers), num, Append(denom, term))
             ELSE IF power > 0
             THEN BaseText(Tail(names), Tail(powers),
                           IF num = Lit(PyInt(1)) THEN term ELSE Mul(num, term),
                           denom)
             ELSE BaseText(Tail(names), Tail(powers), num, denom)

\* PhysicalUnit.in_base_units
in_base_units(L, self) ==
    find_unit(L, Text(BaseText(L.base_names, self.powers, Lit(PyInt(1)), << >>)))

\* conversion_to_base_units(units)
conversion_to_base_units(L, units) ==
    LET Tuple(r) ==
            IF r.res.k = "exc" THEN r
            ELSE Result(r.L, [k |-> "tuple",
                              offset |-> r.L.heap[r.res.id].offset,
                              factor |-> r.L.heap[r.res.id].factor])
    IN  IF units = EmptyText
        THEN Result(L, [k |-> "tuple", offset |-> Zero, factor |-> One])
        ELSE Tuple(find_unit(L, units))

\* is_compatible(old_units, new_units)
is_compatible(L, old_units, new_units) ==
    LET Compare(r1, r2) ==
            IF r2.res.k = "exc" THEN r2
            ELSE Result(r2.L, [k |-> "bool",
                               b |-> unit_is_compatible(r2.L.heap[r1.res.id],
                                                        r2.L.heap[r2.res.id])])
        New_unit(r1) ==
            IF r1.res.k = "exc" THEN r1
            ELSE Compare(r1, find_unit(r1.L, new_units))
    IN  IF old_units = EmptyText /\ new_units = EmptyText
        THEN Result(L, [k |-> "bool", b |-> TRUE])
        ELSE New_unit(find_unit(L, old_units))

\* convert_units(val, old_units, new_units='')
convert_units(L, val, old_units, new_units) ==
    LET Value(L2, t) ==
            IF t.k = "exc" THEN Result(L2, t)
            ELSE Result(L2, [k |-> "float",
                             v |-> FMul(FAdd(val, t.offset), t.factor)])
        Convert(r1, r2) ==
            IF r2.res.k = "exc" THEN r2
            ELSE Value(r2.L, conversion_tuple_to(r2.L.heap[r1.res.id],
                                                 r2.L.heap[r2.res.id]))
        New_unit(r1) ==
            IF r1.res.k = "exc" THEN r1
            ELSE Convert(r1, IF new_units # EmptyText
                             THEN find_unit(r1.L, new_units)
                             ELSE in_base_units(r1.L, r1.L.heap[r1.res.id]))
    IN  IF old_units = EmptyText /\ new_units = EmptyText
        THEN Result(L, [k |-> "float", v |-> val])
        ELSE New_unit(find_unit(L, old_units))

----------------------------------------------------------------------------
(* import_library and _update_library.  A library file is a record of its  *)
(* three sections; a record of the units section is <<name, data>> with    *)
(* data the stripped fields of the value split at ','.                     *)

required_base_types == <<"length", "mass", "time", "temperature", "angle">>

MissingBaseDimension(missing) ==
    Raise("ValueError", "Not all required base type were present", missing)

\* the powers list built only up to the index of the dimension
BasePowers_Short(n, i) == [j \in 1..i |-> IF j = i THEN 1 ELSE 0]

\* [0] * len(base_units) with powers[i] = 1
BasePowers(n, i) == [j \in 1..n |-> IF j = i THEN 1 ELSE 0]

\* _new_unit(name, factor, powers)
new_unit(L, name, factor, powers) ==
    LET id == Alloc(L.heap)
    IN  [L EXCEPT !.heap = Store(@, id, NamedUnit(name, factor, powers, Zero)),
                  !.unit_table = Store(@, name, id)]

\* the loop of import_library over the base_units section
RECURSIVE BaseLoop(_, _, _)
BaseLoop(L, base_units, i) ==
    IF i > Len(base_units) THEN L
    ELSE LET L1 == new_unit([L EXCEPT !.base_types = Store(@, base_units[i][1], i)],
                            base_units[i][2], One, BasePowers(Len(base_units), i))
         IN  BaseLoop([L1 EXCEPT !.base_names = Append(@, base_units[i][2])],
                      base_units, i + 1)

\* import_library up to the call of _update_library
import_library(lib) ==
    LET L0 == [unit_table |-> << >>, heap |-> << >>, cache |-> << >>,
               help |-> << >>,
               prefixes |-> [p \in {lib.prefixes[i][1] : i \in 1..Len(lib.prefixes)} |->
                               lib.prefixes[CHOOSE i \in 1..Len(lib.prefixes) :
                                   lib.prefixes[i][1] = p /\
                                   \A j \in (i + 1)..Len(lib.prefixes) :
                                       lib.prefixes[j][1] # p][2] ],
               base_names |-> << >>, base_types |-> << >>]
        \* the test for required base types, L1 being the library after the
        \* loop over the base units
        Required(L1) ==
            LET missing == SelectSeq(required_base_types,
                                     LAMBDA utype : utype \notin DOMAIN L1.base_types)
            IN  IF missing # << >>
                THEN Result(L1, Exc(MissingBaseDimension(missing)))
                ELSE Result(new_unit(L1, <<"u","n","i","t","l","e","s","s">>, One,
                                     BasePowers(Len(lib.base_units), 0)),
                            None)
    IN  Required(BaseLoop(L0, lib.base_units, 1))

\* try: ... except NameError: r is the outcome of the call, data the tuple
\* kept for a retry
Deferred(r, data) ==
    IF r.res.k = "exc" /\ r.res.exc.type = "NameError"
    THEN [L |-> r.L, res |-> [k |-> "retry", data |-> data]]
    ELSE r

\* one iteration of the first loop of _update_library: the record is
\* registered, deferred (res "retry") or the exception leaves the function
FirstPassRecord(L, rec) ==
    LET nm == rec[1]
        data == rec[2]
    IN  IF Len(data) = 2
        THEN Deferred(add_unit(L, nm, data[1], data[2]), <<nm, data[1], data[2]>>)
        ELSE IF Len(data) = 4
        THEN Deferred(add_offset_unit(L, nm, data[2], data[1], data[3], data[4]),
                      <<nm, data[2], data[1], data[3], data[4]>>)
        ELSE Result(L, Exc(InvalidFormat(nm)))

\* one iteration of the retry loop over retry2
RetryRecord(L, data) ==
    Deferred(IF Len(data) = 3
             THEN add_unit(L, data[1], data[2], data[3])
             ELSE \* name, factor, baseunit, offset, comment = data
                  \* add_offset_unit(name, factor, baseunit, offset, comment)
                  add_offset_unit(L, data[1], data[2], data[3], data[4], data[5]),
             data)

----------------------------------------------------------------------------
(* Actions.  The module is single-threaded: a client call runs while no    *)
(* load is in progress (pc = "idle").                                      *)

Running == [k |-> "running"]

\* the help list grows without limit; calls that append to it are explored
\* while it is shorter than MaxHelp
MaxHelp == 5

HelpRoom(comments) == (\A c \in comments : c = "") \/ Len(help) < MaxHelp

\* the comment field of a record of the units section
CommentOf(rec) == rec[2][Len(rec[2])]

\* the library variables after a call
SetLib(L) ==
    LET Set(C) ==
            /\ unit_table' = C.unit_table
            /\ heap' = C.heap
            /\ UNIT_CACHE' = C.cache
            /\ help' = C.help
            /\ prefixes' = C.prefixes
            /\ base_names' = C.base_names
            /\ base_types' = C.base_types
    IN  Set(Collect(L))

\* the locals of _update_library outside their scope
NoLocals ==
    /\ cfg' = << >>
    /\ idx' = 0
    /\ retry1' = {}
    /\ retry2' = {}
    /\ retry2_copy' = {}
    /\ retry_count' = 0
    /\ last_retry_count' = 0

\* _update_library returns or raises res
LoadReturn(res) ==
    /\ pc' = "idle"
    /\ NoLocals
    /\ last' = [last EXCEPT !.res = res]

\* import_library(libfilepointer) up to the call _update_library(_UNIT_LIB)
ImportLibrary(lib) ==
    /\ pc \in {"boot", "idle"}
    /\ UNCHANGED solvervars
    /\ LET Imported(r) ==
               /\ SetLib(r.L)
               /\ IF r.res.k = "exc"
                  THEN /\ pc' = "idle"
                       /\ NoLocals
                       /\ last' = [op |-> "import_library", units |-> lib.units,
                                   known |-> {}, res |-> r.res]
                  ELSE /\ pc' = "first"
                       /\ cfg' = lib.units
                       /\ idx' = 1
                       /\ retry1' = {}
                       /\ retry2' = {}
                       /\ retry2_copy' = {}
                       /\ retry_count' = 0
                       /\ last_retry_count' = 0
                       /\ last' = [op |-> "import_library", units |-> lib.units,
                                   known |-> DOMAIN r.L.unit_table, res |-> Running]
       IN  Imported(import_library(lib))

\* update_library(filename) up to the call _update_library(cfg)
UpdateLibrary(units) ==
    /\ pc = "idle"
    /\ UNCHANGED solvervars
    /\ HelpRoom({CommentOf(units[i]) : i \in DOMAIN units})
    /\ pc' = "first"
    /\ cfg' = units
    /\ idx' = 1
    /\ retry1' = {}
    /\ retry2' = {}
    /\ retry2_copy' = {}
    /\ retry_count' = 0
    /\ last_retry_count' = 0
    /\ last' = [op |-> "update_library", units |-> units,
                known |-> DOMAIN unit_table, res |-> Running]
    /\ UNCHANGED libvars

\* one iteration of "for name, unit in cfg.items('units')"
FirstPass ==
    /\ pc = "first"
    /\ UNCHANGED solvervars
    /\ idx <= Len(cfg)
    /\ LET Done(r) ==
               /\ SetLib(r.L)
               /\ IF r.res.k = "exc"
                  THEN LoadReturn(r.res)
                  ELSE /\ idx' = idx + 1
                       /\ retry1' = IF r.res.k = "retry"
                                    THEN retry1 \cup {r.res.data} ELSE retry1
                       /\ UNCHANGED <<pc, cfg, retry2, retry2_copy, retry_count,
                                      last_retry_count, last>>
       IN  Done(FirstPassRecord(Lib, cfg[idx]))

\* the first loop is over: retry_count = 0; last_retry_count = -1
FirstPassEnd ==
    /\ pc = "first"
    /\ UNCHANGED solvervars
    /\ idx > Len(cfg)
    /\ pc' = "while"
    /\ retry_count' = 0
    /\ last_retry_count' = -1
    /\ UNCHANGED <<libvars, cfg, idx, retry1, retry2, retry2_copy, last>>

\* while last_retry_count != retry_count and retry1
WhileTest ==
    /\ pc = "while"
    /\ UNCHANGED solvervars
    /\ IF last_retry_count # retry_count /\ retry1 # {}
       THEN /\ last_retry_count' = retry_count
            /\ retry_count' = 0
            /\ retry2' = retry1
            /\ retry2_copy' = retry1
            /\ pc' = "for"
       ELSE /\ pc' = "end"
            /\ UNCHANGED <<last_retry_count, retry_count, retry2, retry2_copy>>
    /\ UNCHANGED <<libvars, cfg, idx, retry1, last>>

\* one iteration of "for data in retry2"; a set is visited in any order
RetryStep ==
    /\ pc = "for"
    /\ UNCHANGED solvervars
    /\ \E data \in retry2 :
         LET Done(r) ==
                 /\ SetLib(r.L)
                 /\ IF r.res.k = "exc"
                    THEN LoadReturn(r.res)
                    ELSE /\ retry2' = retry2 \ {data}
                         /\ retry1' = IF r.res.k = "retry" THEN retry1
                                      ELSE retry1 \ {data}
                         /\ retry_count' = IF r.res.k = "retry" THEN retry_count + 1
                                           ELSE retry_count
                         /\ UNCHANGED <<pc, cfg, idx, retry2_copy,
                                        last_retry_count, last>>
         IN  Done(RetryRecord(Lib, data))

\* the for loop over retry2 is exhausted
RetryPassEnd ==
    /\ pc = "for"
    /\ UNCHANGED solvervars
    /\ retry2 = {}
    /\ pc' = "while"
    /\ UNCHANGED <<libvars, cfg, idx, retry1, retry2, retry2_copy, retry_count,
                   last_retry_count, last>>

\* after the while loop: raise ValueError if retry1, else return
LoadEnd ==
    /\ pc = "end"
    /\ UNCHANGED solvervars
    /\ LoadReturn(IF retry1 # {}
                  THEN Exc(UnresolvedUnits({x[1] : x \in retry1}))
                  ELSE None)
    /\ UNCHANGED libvars

\* add_unit(name, unit, comment) called by a client
AddUnit(nm, unit, comment) ==
    /\ pc = "idle"
    /\ UNCHANGED solvervars
    /\ HelpRoom({comment})
    /\ LET Done(r) ==
               /\ SetLib(r.L)
               /\ last' = [op |-> "add_unit", name |-> nm, unit |-> unit,
                           comment |-> comment, res |-> r.res]
       IN  Done(add_unit(Lib, nm, unit, comment))
    /\ UNCHANGED loadvars

\* add_offset_unit(name, baseunit, factor, offset, comment) called by a client
AddOffsetUnit(nm, baseunit, factor, offset, comment) ==
    /\ pc = "idle"
    /\ UNCHANGED solvervars
    /\ HelpRoom({comment})
    /\ LET Done(r) ==
               /\ SetLib(r.L)
               /\ last' = [op |-> "add_offset_unit", name |-> nm,
                           baseunit |-> baseunit, factor |-> factor,
                           offset |-> offset, comment |-> comment, res |-> r.res]
       IN  Done(add_offset_unit(Lib, nm, baseunit, factor, offset, comment))
    /\ UNCHANGED loadvars

\* conversion_to_base_units(units)
ConversionToBaseUnits(units) ==
    /\ pc = "idle"
    /\ UNCHANGED solvervars
    /\ LET Done(r) ==
               /\ SetLib(r.L)
               /\ last' = [op |-> "conversion_to_base_units", units |-> units,
                           res |-> r.res]
       IN  Done(conversion_to_base_units(Lib, units))
    /\ UNCHANGED loadvars

\* is_compatible(old_units, new_units)
IsCompatible(old_units, new_units) ==
    /\ pc = "idle"
    /\ UNCHANGED solvervars
    /\ LET Done(r) ==
               /\ SetLib(r.L)
               /\ last' = [op |-> "is_compatible", old_units |-> old_units,
                           new_units |-> new_units, res |-> r.res]
       IN  Done(is_compatible(Lib, old_units, new_units))
    /\ UNCHANGED loadvars

\* _find_unit(units).is_angle()
IsAngle(units) ==
    /\ pc = "idle"
    /\ UNCHANGED solvervars
    /\ LET Done(r) ==
               /\ SetLib(r.L)
               /\ last' = [op |-> "is_angle", units |-> units,
                           res |-> IF r.res.k = "exc" THEN r.res
                                   ELSE [k |-> "bool",
                                         b |-> is_angle(r.L.heap[r.res.id],
                                                        r.L.base_types)]]
       IN  Done(find_unit(Lib, units))
    /\ UNCHANGED loadvars

\* convert_units(val, old_units, new_units)
ConvertUnits(val, old_units, new_units) ==
    /\ pc = "idle"
    /\ UNCHANGED solvervars
    /\ LET Done(r) ==
               /\ SetLib(r.L)
               /\ last' = [op |-> "convert_units", val |-> val,
                           old_units |-> old_units, new_units |-> new_units,
                           back |-> None, res |-> r.res]
       IN  Done(convert_units(Lib, val, old_units, new_units))
    /\ UNCHANGED loadvars

\* convert_units(y, v, u) where y is what convert_units(x, u, v) just returned
ConvertBack ==
    /\ pc = "idle"
    /\ UNCHANGED solvervars
    /\ last.op = "convert_units"
    /\ last.back = None
    /\ last.res.k = "float"
    /\ LET Done(r) ==
               /\ SetLib(r.L)
               /\ last' = [op |-> "convert_units", val |-> last.res.v,
                           old_units |-> last.new_units, new_units |-> last.old_units,
                           back |-> [k |-> "float", v |-> last.val], res |-> r.res]
       IN  Done(convert_units(Lib, last.res.v, last.new_units, last.old_units))
    /\ UNCHANGED loadvars

----------------------------------------------------------------------------
(* The default library (unit_library.ini, loaded when the module is        *)
(* imported) and the inputs of the calls.                                  *)

m        == <<"m">>
kg       == <<"k", "g">>
sec      == <<"s">>
degK     == <<"d", "e", "g", "K">>
rad      == <<"r", "a", "d">>
unitless == <<"u", "n", "i", "t", "l", "e", "s", "s">>
degC     == <<"d", "e", "g", "C">>
degF     == <<"d", "e", "g", "F">>
km       == <<"k", "m">>
am       == <<"a", "m">>
dam      == <<"d", "a", "m">>
kdegC    == <<"k", "d", "e", "g", "C">>
foo      == <<"f", "o", "o">>
area     == <<"a", "r", "e", "a">>
ha       == <<"h", "a">>

DefaultLib ==
    [prefixes   |-> << <<<<"k">>, PyFloat(1000, 1)>>,
                       <<<<"d">>, PyFloat(1, 10)>>,
                       <<<<"d", "a">>, PyFloat(10, 1)>>,
                       <<<<"a">>, PyFloat(1, 100)>> >>,
     base_units |-> << <<"length", m>>, <<"mass", kg>>, <<"time", sec>>,
                       <<"temperature", degK>>, <<"angle", rad>> >>,
     units      |-> << <<degC, <<One, Text(Name(degK)), Float(5463, 20, 0),
                                 "degrees Celsius">> >>,
                       <<degF, <<Float(5, 9, 0), Text(Name(degK)),
                                 Float(45967, 100, 0), "degrees Fahrenheit">> >>,
                       <<ha, <<Text(Mul(Lit(PyInt(10000)), Name(area))), "hectare">> >>,
                       <<area, <<Text(Pow(Name(m), Lit(PyInt(2)))), "">> >> >>]

Init ==
    /\ unit_table = << >>
    /\ heap = << >>
    /\ UNIT_CACHE = << >>
    /\ help = << >>
    /\ prefixes = << >>
    /\ base_names = << >>
    /\ base_types = << >>
    /\ pc = "boot"
    /\ cfg = << >>
    /\ idx = 0
    /\ retry1 = {}
    /\ retry2 = {}
    /\ retry2_copy = {}
    /\ retry_count = 0
    /\ last_retry_count = 0
    /\ last = [op |-> "none", res |-> None]
    /\ spc = "idle"
    /\ solver = [class |-> "Solver", ilimit |-> 10, atol |-> Float(1, 1000000, 0),
                 rtol |-> Float(1, 1000000, 0)]
    /\ norm0 = Zero
    /\ norm = Zero
    /\ iteration = 0
    /\ ret = None

\* import_library(default_lib) at the end of the module
Boot == pc = "boot" /\ ImportLibrary(DefaultLib)

\* the steps of _update_library
Load == FirstPass \/ FirstPassEnd \/ WhileTest \/ RetryStep \/ RetryPassEnd \/ LoadEnd

----------------------------------------------------------------------------
(* Loading definition sets: merges of small libraries into the default     *)
(* library, in every order of their records.                               *)

vel  == <<"v", "e", "l">>
dv   == <<"d", "v">>
ddv  == <<"d", "d", "v">>
degR == <<"d", "e", "g", "R">>
degX == <<"d", "e", "g", "X">>
degY == <<"d", "e", "g", "Y">>
yd   == <<"y", "d">>
P    == <<"P">>
Q    == <<"Q">>
C1a  == <<"C", "a">>
C1b  == <<"C", "b">>

rec_vel  == <<vel, <<Text(Div(Name(m), Name(sec))), "velocity">> >>
rec_dv   == <<dv, <<Text(Mul(Name(vel), Lit(PyInt(2)))), "">> >>
rec_ddv  == <<ddv, <<Text(Div(Name(dv), Name(sec))), "">> >>
rec_degR == <<degR, <<Text(Mul(Lit(PyFloat(5, 9)), Name(degK))), "">> >>
rec_degX == <<degX, <<One, Text(Name(degR)), Float(10, 1, 0), "offset Rankine">> >>
rec_yd   == <<yd, <<Text(Mul(Lit(PyInt(3)), Name(m))), "">> >>
rec_P    == <<P, <<Text(Mul(Name(Q), Lit(PyInt(2)))), "">> >>
rec_Ca   == <<C1a, <<Text(Mul(Name(C1b), Lit(PyInt(2)))), "">> >>
rec_Cb   == <<C1b, <<Text(Div(Name(C1a), Lit(PyInt(2)))), "">> >>
rec_degY == <<degY, <<One, Text(Name(Q)), Float(10, 1, 0), "">> >>
rec_Q    == <<Q, <<Text(Mul(Name(Q), Lit(PyInt(2)))), "">> >>

\* every ordering of a set of records
Orderings(S) ==
    {q \in [1..Cardinality(S) -> S] : \A r \in S : \E i \in DOMAIN q : q[i] = r}

LoadCfgs ==
    Orderings({rec_vel, rec_dv, rec_ddv})
    \cup Orderings({rec_degR, rec_degX})
    \cup Orderings({rec_P, rec_yd})
    \cup {<<rec_Ca, rec_Cb, rec_yd>>, <<rec_degY, rec_yd>>, <<rec_Q>>}

NextLoad == Boot \/ Load \/ \E c \in LoadCfgs : UpdateLibrary(c)

SpecLoad == Init /\ [][NextLoad]_vars

\* update_library has returned or raised
LoadDone == pc = "idle" /\ last.op = "update_library"

\* the unit names a record refers to
Refs(rec) ==
    LET data == rec[2]
        e == IF Len(data) = 2 THEN data[1].e ELSE data[2].e
        ids == findall(e)
    IN  {ids[i] : i \in 1..Len(ids)} \ (IF Len(data) = 2 THEN {<<"p", "i">>} ELSE {})

\* the records that can be resolved from the names in known and from the
\* other resolvable records (a least fixed point over record positions)
RECURSIVE ResolvableRecords(_, _, _)
ResolvableRecords(units, known, R) ==
    LET have == known \cup {units[i][1] : i \in R}
        more == {i \in 1..Len(units) : Refs(units[i]) \subseteq have}
    IN  IF more \subseteq R THEN R ELSE ResolvableRecords(units, known, R \cup more)

\* the unit a record defines, evaluated in the current library
Defined(rec) ==
    LET data == rec[2]
    IN  IF Len(data) = 2
        THEN EvalTree(data[1].e, (<<"p", "i">> :> pi), unit_table, heap, base_names)
        ELSE LET base == EvalTree(data[2].e, << >>, unit_table, heap, base_names)
             IN  IF base.k = "exc" THEN base
                 ELSE New(PhysicalUnit(UnitOf(base, heap).names,
                                       FMul(UnitOf(base, heap).factor, data[1]),
                                       UnitOf(base, heap).powers, data[3]))

\* the record's name is registered with the factor, offset and powers of
\* its definition
Registered(rec) ==
    /\ rec[1] \in DOMAIN unit_table
    /\ IsUnitValue(Defined(rec))
    /\ UnitEq(heap[unit_table[rec[1]]], UnitOf(Defined(rec), heap))

\* C1: a definition set whose records can all be resolved from the registry
\* and from each other loads successfully in every order of its records, and
\* every record's name is registered with the value of its definition.
C1_ForwardReferences ==
    (LoadDone /\ ResolvableRecords(last.units, last.known, {}) = DOMAIN last.units)
        => /\ last.res = None
           /\ \A i \in DOMAIN last.units : Registered(last.units[i])

\* C2: a load of a set with unresolvable records fails with UnresolvedUnits
\* naming exactly the unresolvable records, the resolvable ones registered.
C2_UnresolvedUnits ==
    LET R == ResolvableRecords(last.units, last.known, {})
    IN  (LoadDone /\ R # DOMAIN last.units)
            => /\ last.res = Exc(UnresolvedUnits({last.units[i][1] :
                                                     i \in DOMAIN last.units \ R}))
               /\ \A i \in R : Registered(last.units[i])

\* _update_library is between its first statement and its return or raise
Loading == pc \in {"first", "while", "for", "end"}

\* the while test starts another pass over the deferred records
NextPass == pc = "while" /\ pc' = "for"

\* the pass that just ended registered at least one deferred record
PassResolved == retry1 # retry2_copy

\* an upper bound of the passes that follow the current position of the
\* retry loop
PassesLeft ==
    LET n == Cardinality(retry1)
    IN  IF pc = "while"
        THEN IF last_retry_count = -1 THEN n + 1
             ELSE IF last_retry_count # retry_count /\ n > 0 THEN n ELSE 0
        ELSE IF last_retry_count = 0 \/ PassResolved THEN n ELSE n - 1

\* an upper bound of the steps _update_library still takes
StepsLeft ==
    LET PassLen == Len(cfg) + 2
    IN  CASE pc = "first" -> (Len(cfg) + 1) * PassLen + 3 + (Len(cfg) + 1 - idx)
          [] pc = "while" -> PassesLeft * PassLen + 2
          [] pc = "for"   -> PassesLeft * PassLen + Cardinality(retry2) + 3
          [] pc = "end"   -> 1
          [] OTHER        -> 0

\* every load returns or raises (the first half of C11): each step of the
\* loader decreases a bound that is never negative
LoadTerminates ==
    [][Loading => (StepsLeft' < StepsLeft /\ StepsLeft' >= 0)]_vars

\* C11: the loader terminates, and the retry loop performs another pass only
\* for the first pass over the deferred records or after a pass in which at
\* least one deferred record was resolved.
C11_PassOnlyAfterProgress ==
    [][NextPass => (last_retry_count = -1 \/ PassResolved)]_vars

----------------------------------------------------------------------------
(* Defining and redefining units by direct calls.                          *)

meter == <<"m", "e", "t", "e", "r">>

AddUnitCalls ==
    { <<meter, Text(Name(m)), "">>,
      <<m, Text(Name(kg)), "mass">>,
      <<area, Text(Mul(Name(m), Name(m))), "">>,
      <<degK, Text(Name(degC)), "">> }

AddOffsetCalls ==
    { <<degC, Text(Name(degK)), One, Zero, "">>,
      <<degC, Text(Name(degK)), Float(2, 1, 0), Zero, "doubled">> }

RegTexts == {Text(Name(degC)), Padded(Name(degC))}

Next ==
    \/ Boot
    \/ Load
    \/ \E c \in AddUnitCalls : AddUnit(c[1], c[2], c[3])
    \/ \E c \in AddOffsetCalls : AddOffsetUnit(c[1], c[2], c[3], c[4], c[5])
    \/ \E t \in RegTexts : ConversionToBaseUnits(t)

Spec == Init /\ [][Next]_vars

\* the step is a client's call of add_unit or add_offset_unit for a name
\* that is registered when the call is made
RedefineStep ==
    /\ pc = "idle"
    /\ pc' = "idle"
    /\ last'.op \in {"add_unit", "add_offset_unit"}
    /\ last'.name \in DOMAIN unit_table

\* the unit the call defines (before it is named), or the exception that
\* evaluating the definition raises
NewDefinition ==
    IF last'.op = "add_unit"
    THEN EvalTree(last'.unit.e, (<<"p", "i">> :> pi), unit_table, heap, base_names)
    ELSE LET r == find_unit(Lib, last'.baseunit)
         IN  IF r.res.k = "exc" THEN r.res
             ELSE New(PhysicalUnit(r.L.heap[r.res.id].names,
                                   FMul(r.L.heap[r.res.id].factor, last'.factor),
                                   r.L.heap[r.res.id].powers, last'.offset))

\* the definition has the factor and powers of the registered unit
SameFactorAndPowers ==
    LET old == heap[unit_table[last'.name]]
        new == UnitOf(NewDefinition, heap)
    IN  old.factor = new.factor /\ old.powers = new.powers

\* C3: redefining a registered name with identical factor and powers raises
\* nothing and leaves the factor, offset and powers registered under the name,
\* and what conversion_to_base_units(name) returns, as they were.
C3_IdenticalRedefinition ==
    [][(RedefineStep /\ IsUnitValue(NewDefinition) /\ SameFactorAndPowers)
          => /\ last'.res = None
             /\ UnitEq(heap'[unit_table'[last'.name]], heap[unit_table[last'.name]])
             /\ conversion_to_base_units(Lib', Text(Name(last'.name))).res
                  = conversion_to_base_units(Lib, Text(Name(last'.name))).res]_vars

\* C4: redefining a registered name with a differing factor or powers raises
\* DuplicateUnitConflict and leaves every registered unit and the help list
\* as they were.
C4_ConflictingRedefinition ==
    [][(RedefineStep /\ IsUnitValue(NewDefinition) /\ ~SameFactorAndPowers)
          => /\ last'.res = Exc(DuplicateUnitConflict(last'.name))
             /\ \A n \in DOMAIN unit_table :
                    /\ n \in DOMAIN unit_table'
                    /\ heap'[unit_table'[n]] = heap[unit_table[n]]
             /\ help' = help]_vars

\* the step replaces the library (import_library)
ImportStep == pc \in {"boot", "idle"} /\ last'.op = "import_library"

\* the names a step may bind to an instance: the name a client's call
\* defines, the names of the records a step of the loader may process, and
\* the names that are not registered before the step
Bound ==
    (IF pc = "idle" /\ last'.op \in {"add_unit", "add_offset_unit"}
     THEN {last'.name} ELSE {})
    \cup (IF pc = "first" /\ idx <= Len(cfg) THEN {cfg[idx][1]} ELSE {})
    \cup (IF pc = "for" THEN {data[1] : data \in retry2} ELSE {})

\* C10: no step other than a full reload changes the name map, factor,
\* offset or powers of an instance stored in the unit table (a name the step
\* does not define keeps its instance, unchanged); defining a synonym B = A
\* leaves A rendering 'A' and makes B render 'B'.
C10_RegisteredUnitsImmutable ==
    [][~ImportStep
          => /\ \A n \in DOMAIN unit_table \ Bound :
                    /\ n \in DOMAIN unit_table'
                    /\ heap'[unit_table'[n]] = heap[unit_table[n]]
             /\ (/\ pc = "idle"
                 /\ last'.op = "add_unit"
                 /\ last'.unit.e.op = "name"
                 /\ last'.unit.e.id \in DOMAIN unit_table
                 /\ last'.res = None)
                   => /\ unit_name(heap'[unit_table'[last'.unit.e.id]])
                           = unit_name(heap[unit_table[last'.unit.e.id]])
                      /\ unit_name(heap'[unit_table'[last'.name]]) = last'.name]_vars

\* the entry of the cache for the text x is the unit that x evaluates to in
\* the current unit table (same factor, offset and powers)
Coherent(x) ==
    LET fresh == EvalTree(x.e, << >>, unit_table, heap, base_names)
    IN  /\ UNIT_CACHE[x].k = "ref"
        /\ IsUnitValue(fresh)
        /\ UnitEq(heap[UNIT_CACHE[x].id], UnitOf(fresh, heap))

\* C12: in every reachable state every entry of the expression cache maps
\* its key to a unit whose factor, offset and powers are those the key
\* evaluates to against the current registry.
C12_CacheCoherence == \A x \in DOMAIN UNIT_CACHE : Coherent(x)

----------------------------------------------------------------------------
(* Resolving unit expressions: offset operands, prefixed units and roots.  *)

half == Lit(PyFloat(1, 2))

OffsetTexts ==
    { Text(Div(Lit(PyInt(1)), Name(degC))),
      Text(Mul(Name(degC), Name(m))),
      Text(Mul(Lit(PyInt(2)), Name(degC))),
      Text(Div(Name(degC), Lit(PyInt(2)))),
      Text(Div(Name(m), Name(degC))) }

PrefixTexts ==
    { Text(Name(km)), Text(Name(am)), Text(Name(dam)), Text(Name(kdegC)),
      Text(Name(foo)), Text(Mul(Name(km), Name(foo))) }

RootTexts ==
    { Text(Pow(Name(area), half)),
      Text(Pow(Name(m), half)),
      Text(Pow(Name(ha), half)),
      Text(Pow(Pow(Name(m), Lit(PyInt(2))), half)),
      Text(Pow(Mul(Name(area), Name(sec)), half)) }

PiTexts ==
    { Text(Div(Mul(Name(rad), Name(<<"p", "i">>)), Lit(PyInt(180)))),
      Text(Mul(Name(<<"p", "i">>), Name(m))) }

NextResolve ==
    \/ Boot
    \/ Load
    \/ \E t \in OffsetTexts \cup PrefixTexts \cup RootTexts \cup PiTexts :
          ConversionToBaseUnits(t)

SpecResolve == Init /\ [][NextResolve]_vars

\* conversion_to_base_units has just returned or raised
Resolved == pc = "idle" /\ last.op = "conversion_to_base_units"

\* x is the name of a registered unit with nonzero offset
OffsetName(x) ==
    /\ x.op = "name"
    /\ x.id \in DOMAIN unit_table
    /\ heap[unit_table[x.id]].offset # Zero

\* x is a number or the name of a registered unit
Operand(x) == x.op = "lit" \/ (x.op = "name" /\ x.id \in DOMAIN unit_table)

\* C5: resolving a product or quotient of two operands, one of them a unit
\* with nonzero offset, raises IncompatibleOperation, in every form
\* (unit*unit, unit*scalar, scalar*unit, unit/unit, unit/scalar, scalar/unit).
C5_OffsetOperandRejected ==
    (/\ Resolved
     /\ last.units.e.op \in {"mul", "div"}
     /\ Operand(last.units.e.l) /\ Operand(last.units.e.r)
     /\ OffsetName(last.units.e.l) \/ OffsetName(last.units.e.r))
        => last.res = Exc(IF last.units.e.op = "mul"
                          THEN IncompatibleMul ELSE IncompatibleDiv)

\* the step is a call of conversion_to_base_units for a text not in the cache
ResolveMiss ==
    /\ pc = "idle"
    /\ pc' = "idle"
    /\ last'.op = "conversion_to_base_units"
    /\ Strip(last'.units) \notin DOMAIN UNIT_CACHE

\* the identifiers of the text that are no registered unit names
Unregistered(e) == SelectSeq(findall(e), LAMBDA t : t \notin DOMAIN unit_table)

\* t splits into a prefix of n characters and a registered unit name
SplitAt(t, n) ==
    /\ Slice(t, n) \in DOMAIN prefixes
    /\ Rest(t, n) \in DOMAIN unit_table

\* after the step t is registered as the prefix of n characters times the
\* unit registered under the rest of t
Synthesized(t, n) ==
    /\ t \in DOMAIN unit_table'
    /\ LET s == heap[unit_table[Rest(t, n)]]
           u == heap'[unit_table'[t]]
       IN  /\ u.factor = FMul(prefixes[Slice(t, n)].v, s.factor)
           /\ u.powers = s.powers
           /\ u.offset = Zero
           /\ u.names = << <<t, 1>> >>

\* C6 as stated: an unregistered token with a split p+s, p a prefix of 1 or 2
\* characters and s a registered unit with zero offset, resolves and is
\* registered as prefixes[p]*s for every such split; a token with no such
\* split fails with UnknownUnit naming it.
C6_AnySplit ==
    [][(ResolveMiss /\ last'.units.e.op = "name"
                    /\ last'.units.e.id \notin DOMAIN unit_table)
          => LET t == last'.units.e.id
                 Good(n) == SplitAt(t, n) /\ heap[unit_table[Rest(t, n)]].offset = Zero
             IN  IF \E n \in {1, 2} : Good(n)
                 THEN /\ last'.res.k = "tuple"
                      /\ \A n \in {1, 2} : Good(n) => Synthesized(t, n)
                 ELSE last'.res = Exc(UnknownUnit(t))]_vars

\* C6: on a cache miss the first unregistered token t of the text is split
\* at its 1-character prefix if that split matches, else at its 2-character
\* prefix; with no matching split the call raises UnknownUnit(t), with a
\* suffix of nonzero offset it raises IncompatibleOperation, in both cases
\* leaving the unit table unchanged; otherwise t is registered with factor
\* prefixes[p]*f, the powers of the suffix, offset 0 and name map {t: 1},
\* and a text that is just t resolves to (0, prefixes[p]*f).
C6_PrefixSynthesis ==
    [][(ResolveMiss /\ Unregistered(last'.units.e) # << >>)
          => LET t == Head(Unregistered(last'.units.e))
                 n == IF SplitAt(t, 1) THEN 1 ELSE IF SplitAt(t, 2) THEN 2 ELSE 0
             IN  IF n = 0
                 THEN last'.res = Exc(UnknownUnit(t)) /\ unit_table' = unit_table
                 ELSE IF heap[unit_table[Rest(t, n)]].offset # Zero
                 THEN last'.res = Exc(IncompatibleMul) /\ unit_table' = unit_table
                 ELSE /\ Synthesized(t, n)
                      /\ last'.units.e = Name(t)
                           => last'.res = [k |-> "tuple", offset |-> Zero,
                                           factor |-> heap'[unit_table'[t]].factor]]_vars

\* 'dam' has been resolved with 'am' registered: both splits d+am and da+m
\* match and the 1-character one was taken
C6_Witness ==
    /\ Resolved
    /\ last.units = Text(Name(dam))
    /\ last.res = [k |-> "tuple", offset |-> Zero, factor |-> Float(1, 1000, 0)]
    /\ am \in DOMAIN unit_table
    /\ dam \in DOMAIN unit_table
    /\ heap[unit_table[dam]].names = << <<dam, 1>> >>

\* the text is x**0.5 and x evaluates to a unit with zero offset
HalfPower ==
    /\ Resolved
    /\ last.units.e.op = "pow"
    /\ last.units.e.r = half
    /\ LET x == EvalTree(last.units.e.l, << >>, unit_table, heap, base_names)
       IN  IsUnitValue(x) /\ UnitOf(x, heap).offset = Zero

\* the unit x of the text x**0.5
Radicand == UnitOf(EvalTree(last.units.e.l, << >>, unit_table, heap, base_names), heap)

\* the unit the text of the last call resolved to
Found == heap[UNIT_CACHE[Strip(last.units)].id]

\* C9 as stated: x**0.5 succeeds for every zero-offset unit x, whether its
\* dimension vector has an odd entry or not.
C9_AlwaysSucceeds == HalfPower => last.res.k = "tuple"

\* C9: x**0.5 on a zero-offset unit x raises UnsupportedExponent when an
\* entry of x's dimension vector is odd; when all are even it succeeds with
\* the root of the factor and the halved dimension vector, and its name map
\* is x's halved when every exponent of that map is even, else the
\* synthesized one: the factor (if it is not 1) and every base name with
\* its new power.
C9_HalfPower ==
    HalfPower =>
        LET x == Radicand
            f == FRoot(x.factor, 2)
            p == [i \in 1..Len(x.powers) |-> x.powers[i] \div 2]
        IN  IF \E i \in 1..Len(x.powers) : x.powers[i] % 2 # 0
            THEN last.res = Exc(UnsupportedExponent)
            ELSE /\ last.res = [k |-> "tuple", offset |-> Zero, factor |-> f]
                 /\ Found.powers = p
                 /\ Found.names =
                      IF \A i \in 1..Len(x.names) : x.names[i][2] % 2 = 0
                      THEN [i \in 1..Len(x.names) |->
                               <<x.names[i][1], x.names[i][2] \div 2>>]
                      ELSE (IF f # One
                            THEN << <<Str([t |-> "float", v |-> f]), 1>> >>
                            ELSE << >>)
                           \o [i \in 1..Len(base_names) |-> <<base_names[i], p[i]>>]

\* 'ha**0.5' has been resolved: the dimension vector is even, the name map
\* {ha: 1} is not, and the name is synthesized from the factor 100
C9_Witness ==
    /\ HalfPower
    /\ last.units = Text(Pow(Name(ha), half))
    /\ last.res = [k |-> "tuple", offset |-> Zero, factor |-> Float(100, 1, 0)]
    /\ Len(Found.names) = Len(base_names) + 1

\* the unit add_unit defines for the text of the last call: the text
\* evaluated with pi over the unit table
AsDefinition ==
    EvalTree(last.units.e, (<<"p", "i">> :> pi), unit_table, heap, base_names)

\* C15: the resolver evaluates over the unit names plus pi, as add_unit does:
\* a text that add_unit accepts as a definition resolves to a unit with the
\* same factor and offset, pi being neither looked up as a unit nor split.
C15_PiNamespace ==
    (Resolved /\ last.units # EmptyText /\ IsUnitValue(AsDefinition))
        => last.res = [k |-> "tuple",
                       offset |-> UnitOf(AsDefinition, heap).offset,
                       factor |-> UnitOf(AsDefinition, heap).factor]

\* the names the default library registers
LoadedNames ==
    {DefaultLib.base_units[i][2] : i \in DOMAIN DefaultLib.base_units}
    \cup {DefaultLib.units[i][1] : i \in DOMAIN DefaultLib.units}
    \cup {unitless}

\* the registry as the load produced it: the units synthesized by earlier
\* resolutions and the cache entries of earlier resolutions are left out
LoadedRegistry ==
    [Lib EXCEPT !.unit_table = [n \in DOMAIN unit_table \cap LoadedNames |->
                                    unit_table[n]],
                !.cache = << >>]

\* C13: the outcome of resolving an expression (the exception, or the offset
\* and factor of the unit found) is the one the same resolution has right
\* after the load, whatever was resolved before it.
C13_HistoryIndependent ==
    Resolved => last.res = conversion_to_base_units(LoadedRegistry, last.units).res

----------------------------------------------------------------------------
(* Converting values.                                                      *)

\* the values converted are the integers from -MaxVal to MaxVal
MaxVal == 1

Vals == {Float(n, 1, 0) : n \in (-MaxVal)..MaxVal}

\* <<old_units, new_units>>
ConvertCalls ==
    { <<Text(Name(degC)), Text(Name(degF))>>,
      <<Text(Name(degF)), Text(Name(degK))>>,
      <<Text(Name(km)), Text(Name(m))>>,
      <<Text(Mul(Lit(PyInt(0)), Name(m))), Text(Name(m))>>,
      <<Text(Name(km)), EmptyText>>,
      <<Text(Name(degC)), EmptyText>>,
      <<Text(Name(unitless)), EmptyText>>,
      <<Text(Div(Name(m), Name(m))), EmptyText>> }

NextConvert ==
    \/ Boot
    \/ Load
    \/ \E x \in Vals, c \in ConvertCalls : ConvertUnits(x, c[1], c[2])
    \/ ConvertBack

SpecConvert == Init /\ [][NextConvert]_vars

\* convert_units has just returned or raised
Converted == pc = "idle" /\ last.op = "convert_units"

\* C7: for a non-empty text u that resolves to a unit, convert_units(x, u)
\* returns (x + off) * fac with (off, fac) = conversion_to_base_units(u).
C7_ConvertToBaseUnits ==
    (/\ Converted
     /\ last.old_units # EmptyText
     /\ last.new_units = EmptyText
     /\ conversion_to_base_units(Lib, last.old_units).res.k = "tuple")
        => LET t == conversion_to_base_units(Lib, last.old_units).res
           IN  last.res = [k |-> "float",
                           v |-> FMul(FAdd(last.val, t.offset), t.factor)]

\* the unit a resolved text is cached as
Cached(text) == heap[UNIT_CACHE[Strip(text)].id]

\* both texts of the last call have been resolved to units
BothResolved ==
    /\ last.old_units # EmptyText
    /\ last.new_units # EmptyText
    /\ \A text \in {last.old_units, last.new_units} :
           /\ Strip(text) \in DOMAIN UNIT_CACHE
           /\ UNIT_CACHE[Strip(text)].k = "ref"

\* C8 as stated: for texts u and v resolving to units with equal dimension
\* vectors convert_units(x, u, v) returns a value, and converting that
\* value back from v to u returns x.
C8_AllCompatible ==
    (/\ Converted
     /\ BothResolved
     /\ Cached(last.old_units).powers = Cached(last.new_units).powers)
        => /\ last.res.k = "float"
           /\ last.back # None => last.res = last.back

\* C8: for texts u and v resolving to units with equal dimension vectors
\* and nonzero factors, convert_units(x, u, v) returns (x + shift) * scale
\* with scale = u.factor / v.factor and
\* shift = u.offset - v.offset * v.factor / u.factor, and converting the
\* result back from v to u returns x.
C8_RoundTrip ==
    (/\ Converted
     /\ BothResolved
     /\ Cached(last.old_units).powers = Cached(last.new_units).powers
     /\ Cached(last.old_units).factor # Zero
     /\ Cached(last.new_units).factor # Zero)
        => LET u == Cached(last.old_units)
               v == Cached(last.new_units)
               scale == FDiv(u.factor, v.factor)
               shift == FSub(u.offset, FDiv(FMul(v.offset, v.factor), u.factor))
           IN  /\ last.res = [k |-> "float",
                              v |-> FMul(FAdd(last.val, shift), scale)]
               /\ last.back # None => last.res = last.back

\* a nonzero value in degC has been converted to degF and back
C8_Witness ==
    /\ Converted
    /\ last.back # None
    /\ last.back.v # Zero
    /\ last.old_units = Text(Name(degF))
    /\ last.new_units = Text(Name(degC))
    /\ last.res.k = "float"
----------------------------------------------------------------------------
(* Angles.                                                                 *)

AngleTexts ==
    { Text(Name(rad)),
      Text(Name(m)),
      Text(Mul(Name(rad), Name(m))),
      Text(Mul(Name(rad), Name(rad))),
      Text(Div(Mul(Name(rad), Name(m)), Name(sec))),
      Text(Div(Mul(Name(m), Name(m)), Name(sec))),
      Text(Div(Mul(Name(rad), Name(rad)), Name(m))) }

NextAngle ==
    \/ Boot
    \/ Load
    \/ \E t \in AngleTexts : IsAngle(t)

SpecAngle == Init /\ [][NextAngle]_vars

\* is_angle has just returned for the unit of last.units
AngleAsked == pc = "idle" /\ last.op = "is_angle" /\ last.res.k = "bool"

\* the dimension vector of the unit that is_angle was asked about
AskedPowers == heap[UNIT_CACHE[Strip(last.units)].id].powers

\* C14: is_angle(a) is true exactly when the entry of a's dimension vector at
\* the 'angle' index is 1 and every other entry is 0.
C14_IsAngle ==
    AngleAsked
        => (last.res.b <=> \A i \in DOMAIN AskedPowers :
                              AskedPowers[i] = (IF i = base_types["angle"] THEN 1 ELSE 0))

----------------------------------------------------------------------------
(* The base dimensions: loads, merges, definitions and resolutions mixed.  *)

DimCfgs == {<<rec_dv, rec_vel>>, <<rec_degR, rec_degX>>}

DimAddCalls ==
    { <<meter, Text(Name(m)), "">>,
      <<yd, Text(Mul(Name(m), Name(m))), "">> }

DimOffsetCalls == {<<degC, Text(Name(degK)), One, Zero, "">>}

DimTexts ==
    { Text(Name(km)),
      Text(Pow(Name(ha), half)),
      Text(Div(Name(km), Name(vel))) }

NextDim ==
    \/ Boot
    \/ Load
    \/ \E c \in DimCfgs : UpdateLibrary(c)
    \/ \E c \in DimAddCalls : AddUnit(c[1], c[2], c[3])
    \/ \E c \in DimOffsetCalls : AddOffsetUnit(c[1], c[2], c[3], c[4], c[5])
    \/ \E t \in DimTexts : ConversionToBaseUnits(t)

SpecDim == Init /\ [][NextDim]_vars

\* every unit of the unit table has one power per base dimension
OnePowerPerDimension ==
    \A n \in DOMAIN unit_table : Len(heap[unit_table[n]].powers) = Len(base_names)

\* C16: after the full load no merge, definition or resolution changes the
\* list of base dimensions, the index of the base dimensions or the prefix
\* table, and every unit of the unit table (loaded, merged, defined or
\* synthesized) has exactly one power per base dimension.
C16_DimensionVectors ==
    [][/\ ~ImportStep => /\ base_names' = base_names
                         /\ base_types' = base_types
                         /\ prefixes' = prefixes
       /\ OnePowerPerDimension']_vars

\* units of the default library, of a merge, of a direct definition and of
\* a prefix synthesis are registered together
C16_Witness ==
    /\ pc = "idle"
    /\ {degK, ha, vel, dv, meter, km} \subseteq DOMAIN unit_table
    /\ Len(base_names) = 5
    /\ OnePowerPerDimension

----------------------------------------------------------------------------
(* solver.py: Solver._run_iterator for NonlinearSolver and LinearSolver.   *)
(* A norm is a float: a rational <<n, d, 0>>, inf or nan.  The norms the   *)
(* system reports are not negative.                                        *)

inf == <<1, 0, 0>>
nan == <<0, 0, 0>>

\* numpy.isinf, numpy.isnan
isinf(x) == x[2] = 0 /\ x[1] # 0
isnan(x) == x[2] = 0 /\ x[1] = 0

\* a > b
Gt(a, b) ==
    IF isnan(a) \/ isnan(b) THEN FALSE
    ELSE IF isinf(a) THEN ~isinf(b)
    ELSE IF isinf(b) THEN FALSE
    ELSE a[1] * b[2] > b[1] * a[2]

\* a / b for b # 0 (from __future__ import division)
TrueDiv(a, b) ==
    IF isnan(a) \/ isnan(b) THEN nan
    ELSE IF isinf(a) THEN (IF isinf(b) THEN nan ELSE inf)
    ELSE IF isinf(b) THEN Zero
    ELSE FDiv(a, b)

\* the norms a system may report
Norms == {Zero, Float(1, 2, 0), One, Float(2, 1, 0), inf, nan}

\* the outcomes of self._iter_get_norm(): NonlinearSolver returns the norm of
\* the residuals; LinearSolver reads the name vec_names, which is neither a
\* local nor a global of the module
iter_get_norm(slf) ==
    IF slf.class = "NonlinearSolver"
    THEN {Num(x) : x \in Norms}
    ELSE {Exc(NameError(<<"vec_names">>))}

\* an exception leaves _run_iterator and the call
SolverRaise(e) ==
    /\ spc' = "idle"
    /\ ret' = e
    /\ UNCHANGED <<solver, norm0, norm, iteration>>

\* __call__ (for LinearSolver with vec_names and mode 'fwd' or 'rev') up to
\* the call of self._iter_initialize()
Call(class, ilimit, atol, rtol) ==
    /\ spc = "idle"
    /\ solver' = [class |-> class, ilimit |-> ilimit, atol |-> atol, rtol |-> rtol]
    /\ spc' = "initialize"
    /\ norm0' = Zero
    /\ norm' = Zero
    /\ iteration' = 0
    /\ ret' = Running
    /\ UNCHANGED unitvars

\* norm0, norm = self._iter_initialize(); iteration = 0
IterInitialize ==
    /\ spc = "initialize"
    /\ \E r \in (IF solver.ilimit > 1 THEN iter_get_norm(solver) ELSE {Num(One)}) :
         IF r.k = "exc" THEN SolverRaise(r)
         ELSE /\ norm' = r.n
              /\ norm0' = (IF r.n # Zero THEN r.n ELSE One)
              /\ iteration' = 0
              /\ spc' = "while"
              /\ UNCHANGED <<solver, ret>>
    /\ UNCHANGED unitvars

\* while iteration < ilimit and norm > atol and norm/norm0 > rtol
LoopTest ==
    /\ spc = "while"
    /\ spc' = (IF /\ iteration < solver.ilimit
                  /\ Gt(norm, solver.atol)
                  /\ Gt(TrueDiv(norm, norm0), solver.rtol)
               THEN "body" ELSE "return")
    /\ UNCHANGED <<solver, norm0, norm, iteration, ret, unitvars>>

\* self._iter_execute(); norm = self._iter_get_norm(); iteration += 1
IterExecute ==
    /\ spc = "body"
    /\ \E r \in iter_get_norm(solver) :
         IF r.k = "exc" THEN SolverRaise(r)
         ELSE /\ norm' = r.n
              /\ iteration' = iteration + 1
              /\ spc' = "while"
              /\ UNCHANGED <<solver, norm0, ret>>
    /\ UNCHANGED unitvars

\* success = ...; return not success, norm/norm0, norm
Return ==
    /\ spc = "return"
    /\ LET success == /\ ~(/\ Gt(norm, solver.atol)
                             /\ Gt(TrueDiv(norm, norm0), solver.rtol))
                      /\ ~isinf(norm)
                      /\ ~isnan(norm)
       IN  ret' = [k |-> "tuple", failed |-> ~success,
                   ratio |-> TrueDiv(norm, norm0), norm |-> norm]
    /\ spc' = "idle"
    /\ UNCHANGED <<solver, norm0, norm, iteration, unitvars>>

\* the iteration limits explored
MaxIlimit == 3

\* the tolerances explored
Tols == {Zero, Float(1, 2, 0), One}

NextSolver ==
    \/ \E class \in {"NonlinearSolver", "LinearSolver"}, ilimit \in 0..MaxIlimit,
          atol \in Tols, rtol \in Tols : Call(class, ilimit, atol, rtol)
    \/ IterInitialize
    \/ LoopTest
    \/ IterExecute
    \/ Return

SpecSolver == Init /\ [][NextSolver]_vars

\* a <= b
Le(a, b) == ~isnan(a) /\ ~isnan(b) /\ ~Gt(a, b)

\* norm <= atol or norm/norm0 <= rtol
Converged(n, ratio) == Le(n, solver.atol) \/ Le(ratio, solver.rtol)

\* the call of a solver is over
CallEnded == spc = "idle" /\ ret # None

\* the protocol of _run_iterator for the calls that return
Protocol ==
    /\ iteration <= solver.ilimit
    /\ spc = "body" => ~Converged(norm, TrueDiv(norm, norm0))
    /\ (CallEnded /\ ret.k = "tuple")
          => /\ ret.norm = norm
             /\ ret.ratio = TrueDiv(norm, norm0)
             /\ ret.failed <=> ~(/\ ~isinf(ret.norm)
                                  /\ ~isnan(ret.norm)
                                  /\ Converged(ret.norm, ret.ratio))

\* the part of C17 that holds: every call of a NonlinearSolver returns, and
\* every call that returns follows the protocol
NonlinearProtocol ==
    /\ (CallEnded /\ solver.class = "NonlinearSolver") => ret.k = "tuple"
    /\ Protocol

\* C17: for NonlinearSolver and LinearSolver and every ilimit, atol and rtol a
\* call returns (failed, norm/norm0, norm) after at most ilimit executions of
\* _iter_execute; it stops as soon as norm <= atol or norm/norm0 <= rtol, and
\* failed is False exactly when norm is finite and one of the two holds.
C17_SolverProtocol ==
    /\ CallEnded => ret.k = "tuple"
    /\ Protocol

=============================================================================
